---- MODULE Spec2Model ----
(***************************************************************************)
(* The Werewolf game of App.tsx: the reducer-held GameState, the phase     *)
(* effect runPhaseLogic, the bot and human handlers, and the timers and    *)
(* narration awaits that the phase effect leaves pending.                  *)
(***************************************************************************)
EXTENDS Integers, Sequences, FiniteSets, TLC

VARIABLES
    state,             \* the GameState held by useReducer(gameReducer, initialState)
    selectedTargetId,  \* useState: the card the human has selected
    pending,           \* timers and narration awaits not yet completed, in creation order
    effectPending,     \* the [state.phase] effect (runPhaseLogic) is due for this commit
    gamesStarted,      \* number of START_GAME dispatches so far
    limit,             \* the bounds of this run: [draws, games, shuffles], fixed by Init
    setup              \* the setup form: useState setupName and setupCount

vars == <<state, selectedTargetId, pending, effectPending, gamesStarted, limit, setup>>

-----------------------------------------------------------------------------
(* Bounds of the model *)

MaxDay == 3
MaxGames == 2
MaxRand == 2
MaxShuffle == 4
MaxSeerTimers == 2
MaxNarrationDelay == 2
MaxMarked == 3
MaxCandidates == 3
MaxSpeeches == 2
MaxChats == 1
FullShuffleSeats == 6

(* Program constants *)

SetupCount == 6
MinPlayers == 6
MaxPlayers == 18

DelayNightStart == 3000
DelayWerewolfMin == 3000
DelayWerewolfMax == 5000
DelaySeerMin == 2000
DelaySeerMax == 4000
DelayWitchMin == 2000
DelayWitchMax == 4000
DelayAnnounce == 4000
DelayDeadVote == 4000
DelayExecute == 3000
DelaySeerConfirm == 2000

\* setTimeout delays are in milliseconds; the model's clock counts whole seconds
DelayDiscussMin == 3000
DelayDiscussMax == 7000
Seconds(ms) == ms \div 1000

-----------------------------------------------------------------------------
(* types.ts *)

Role == {"WEREWOLF", "VILLAGER", "SEER", "WITCH", "HUNTER"}

GamePhase ==
    {"SETUP", "NIGHT_START", "NIGHT_WEREWOLF", "NIGHT_SEER", "NIGHT_WITCH", "NIGHT_END",
     "DAY_ANNOUNCE", "DAY_DISCUSS", "DAY_VOTE", "DAY_EXECUTE", "GAME_OVER"}

Null == "null"

\* `p-${idx}` for seat idx (seat 0 is sequence position 1)
PlayerId(idx) ==
    <<"p-0", "p-1", "p-2", "p-3", "p-4", "p-5", "p-6", "p-7", "p-8", "p-9", "p-10",
      "p-11", "p-12", "p-13", "p-14", "p-15", "p-16", "p-17">>[idx + 1]

Min(a, b) == IF a < b THEN a ELSE b

\* Array.prototype.filter on a sequence, keeping order
Filter(seq, Keep(_)) == SelectSeq(seq, Keep)

\* { ...p, ...updates }
Merge(p, updates) ==
    [f \in DOMAIN p |-> IF f \in DOMAIN updates THEN updates[f] ELSE p[f]]

-----------------------------------------------------------------------------
(* The reducer *)

initialState ==
    [phase |-> "SETUP",
     players |-> <<>>,
     humanPlayerId |-> Null,
     dayCount |-> 0,
     logs |-> <<>>,
     winner |-> Null,
     witchPotions |-> [save |-> TRUE, poison |-> TRUE],
     lastKilledId |-> Null,
     seerCheckResult |-> <<>>]

\* a reducer whose ADD_LOG puts the message in front of the log
gameReducerNewestFirst(s, action) ==
    CASE action.type = "START_GAME" ->
            [initialState EXCEPT !.phase = "NIGHT_START", !.players = action.players,
                                 !.humanPlayerId = action.humanId, !.dayCount = 1]
      [] action.type = "NEXT_PHASE" -> [s EXCEPT !.phase = action.phase]
      [] action.type = "ADD_LOG" -> [s EXCEPT !.logs = <<action.message>> \o s.logs]
      [] action.type = "UPDATE_PLAYER" ->
            [s EXCEPT !.players =
                [i \in DOMAIN s.players |->
                    IF s.players[i].id = action.playerId
                    THEN Merge(s.players[i], action.updates)
                    ELSE s.players[i]]]
      [] action.type = "SET_WITCH_POTION" ->
            [s EXCEPT !.witchPotions[action.potion] = ~action.used]
      [] action.type = "SET_LAST_KILLED" -> [s EXCEPT !.lastKilledId = action.playerId]
      [] action.type = "SET_SEER_RESULT" -> [s EXCEPT !.seerCheckResult = action.result]
      [] action.type = "SET_WINNER" -> [s EXCEPT !.winner = action.winner]
      [] action.type = "INCREMENT_DAY" -> [s EXCEPT !.dayCount = s.dayCount + 1]
      [] action.type = "RESET_GAME" -> initialState
      [] OTHER -> s

gameReducer(s, action) ==
    CASE action.type = "START_GAME" ->
            [initialState EXCEPT !.phase = "NIGHT_START", !.players = action.players,
                                 !.humanPlayerId = action.humanId, !.dayCount = 1]
      [] action.type = "NEXT_PHASE" -> [s EXCEPT !.phase = action.phase]
      [] action.type = "ADD_LOG" -> [s EXCEPT !.logs = Append(s.logs, action.message)]
      [] action.type = "UPDATE_PLAYER" ->
            [s EXCEPT !.players =
                [i \in DOMAIN s.players |->
                    IF s.players[i].id = action.playerId
                    THEN Merge(s.players[i], action.updates)
                    ELSE s.players[i]]]
      [] action.type = "SET_WITCH_POTION" ->
            [s EXCEPT !.witchPotions[action.potion] = ~action.used]
      [] action.type = "SET_LAST_KILLED" -> [s EXCEPT !.lastKilledId = action.playerId]
      [] action.type = "SET_SEER_RESULT" -> [s EXCEPT !.seerCheckResult = action.result]
      [] action.type = "SET_WINNER" -> [s EXCEPT !.winner = action.winner]
      [] action.type = "INCREMENT_DAY" -> [s EXCEPT !.dayCount = s.dayCount + 1]
      [] action.type = "RESET_GAME" -> initialState
      [] OTHER -> s

\* the dispatches of one callback, applied in order
RECURSIVE Dispatch(_, _)
Dispatch(s, actions) ==
    IF actions = <<>> THEN s
    ELSE Dispatch(gameReducer(s, Head(actions)), Tail(actions))

NextPhase(p) == [type |-> "NEXT_PHASE", phase |-> p]
UpdatePlayer(id, u) == [type |-> "UPDATE_PLAYER", playerId |-> id, updates |-> u]
SetLastKilled(id) == [type |-> "SET_LAST_KILLED", playerId |-> id]
SetWinner(w) == [type |-> "SET_WINNER", winner |-> w]
SetWitchPotion(p, u) == [type |-> "SET_WITCH_POTION", potion |-> p, used |-> u]
SetSeerResult(r) == [type |-> "SET_SEER_RESULT", result |-> r]

\* addLog: one ADD_LOG dispatch (the message is its text)
addLog(text) == [type |-> "ADD_LOG", message |-> text]

-----------------------------------------------------------------------------
(* Readers *)

\* getHumanPlayer: the player with id humanPlayerId, as a sequence of 0 or 1 players
getHumanPlayer(s) == Filter(s.players, LAMBDA p : p.id = s.humanPlayerId)

HumanHas(s, role) ==
    LET h == getHumanPlayer(s) IN h # <<>> /\ h[1].role = role /\ h[1].isAlive

HumanAlive(s) == LET h == getHumanPlayer(s) IN h # <<>> /\ h[1].isAlive

aliveWolves(s) == Len(Filter(s.players, LAMBDA p : p.isAlive /\ p.role = "WEREWOLF"))
aliveGood(s) == Len(Filter(s.players, LAMBDA p : p.isAlive /\ p.role # "WEREWOLF"))

isHumanTurn(s) ==
    \/ s.phase = "NIGHT_WEREWOLF" /\ HumanHas(s, "WEREWOLF")
    \/ s.phase = "NIGHT_SEER" /\ HumanHas(s, "SEER")
    \/ s.phase = "NIGHT_WITCH" /\ HumanHas(s, "WITCH")
    \/ s.phase = "DAY_VOTE" /\ HumanAlive(s)

-----------------------------------------------------------------------------
(* Pending work: setTimeout callbacks and awaits of generateHostNarration *)

Timer(name, snap, left) == [kind |-> "timer", name |-> name, snap |-> snap, left |-> left]
Narration(forPhase, snap, left) ==
    [kind |-> "narration", name |-> forPhase, snap |-> snap, left |-> left]
\* an await of generateBotDiscussion ("auto") or generateBotResponseToUser ("reply")
Dialogue(name, left) == [kind |-> "dialogue", name |-> name, snap |-> <<>>, left |-> left]

\* the seconds a generateHostNarration call can take to resolve
Latencies ==
    0..(IF "latency" \in DOMAIN limit THEN limit.latency ELSE MaxNarrationDelay)

MinDelay(name) ==
    CASE name = "toWerewolf" -> DelayNightStart
      [] name = "botWerewolf" -> DelayWerewolfMin
      [] name = "botSeer" -> DelaySeerMin
      [] name = "botWitch" -> DelayWitchMin
      [] name = "toDiscuss" -> DelayAnnounce
      [] name = "deadVote" -> DelayDeadVote
      [] name = "execute" -> DelayExecute
      [] name = "seerConfirm" -> DelaySeerConfirm
      [] name = "autoDiscuss" -> DelayDiscussMin

MaxDelay(name) ==
    CASE name = "botWerewolf" -> DelayWerewolfMax
      [] name = "botSeer" -> DelaySeerMax
      [] name = "botWitch" -> DelayWitchMax
      [] name = "autoDiscuss" -> DelayDiscussMax
      [] OTHER -> MinDelay(name)

\* the delays a setTimeout of this kind can be given, in whole seconds
Delays(name) == Seconds(MinDelay(name))..Seconds(MaxDelay(name))

\* the time left until the next pending completion (0 with nothing pending)
MinLeft(p) ==
    IF p = <<>> THEN 0
    ELSE CHOOSE m \in {p[i].left : i \in DOMAIN p} : \A i \in DOMAIN p : m <= p[i].left

\* e seconds pass
Elapse(p, e) == [i \in DOMAIN p |-> [p[i] EXCEPT !.left = @ - e]]

\* a click comes at any time before the next pending completion
Elapsed(p) == {Elapse(p, e) : e \in 0..MinLeft(p)}

\* The event loop runs the completion that is due first, and of two due together
\* the one set first.
CanComplete(i) ==
    /\ i \in DOMAIN pending
    /\ pending[i].left = MinLeft(pending)
    /\ \A j \in 1..(i - 1) : pending[j].left # pending[i].left

Remove(seq, i) == SubSeq(seq, 1, i - 1) \o SubSeq(seq, i + 1, Len(seq))

\* what is left pending when pending[i] completes
After(i) == Elapse(Remove(pending, i), pending[i].left)

\* Math.floor(Math.random() * seq.length) as an index into seq, draws below limit.draws
RandomPick(seq) == {seq[i] : i \in 1..Min(Len(seq), limit.draws)}

\* the bot lines and chat messages a run may ask for (none unless Init grants them)
Speeches == IF "speeches" \in DOMAIN limit THEN limit.speeches ELSE 0
Chats == IF "chats" \in DOMAIN limit THEN limit.chats ELSE 0

Lines(s, text) == Len(SelectSeq(s.logs, LAMBDA m : m = text))
InFlight(tasks, name) ==
    Len(SelectSeq(tasks, LAMBDA w : w.kind = "dialogue" /\ w.name = name))

\* The auto-discussion effect on [state.phase, state.logs, state.players]: its cleanup
\* clears the timeout of the previous run, and in DAY_DISCUSS the new run sets one of
\* 3 to 7 seconds
runAutoDiscussion(s2, tasks) ==
    IF s2.phase = state.phase /\ s2.logs = state.logs /\ s2.players = state.players
    THEN {tasks}
    ELSE LET kept == SelectSeq(tasks, LAMBDA w : ~(w.kind = "timer" /\ w.name = "autoDiscuss"))
         IN IF /\ s2.phase = "DAY_DISCUSS"
               /\ Lines(s2, "bot: line") + InFlight(kept, "auto") < Speeches
            THEN {Append(kept, Timer("autoDiscuss", <<>>, d)) : d \in Delays("autoDiscuss")}
            ELSE {kept}

\* One commit: the new GameState, the work it leaves pending, and whether the
\* [state.phase] effect is due
Commit(s2, tasks) ==
    /\ state' = s2
    /\ pending' \in runAutoDiscussion(s2, tasks)
    /\ effectPending' = (s2.phase # state.phase)

-----------------------------------------------------------------------------
(* handleStartGame *)

\* the setup form's name field holds a sequence of characters
SetupNames == {<<>>, <<" ">>, <<" ", " ">>, <<"A">>, <<" ", "A">>}

\* the form the whole-game specifications start from: a name typed, six players
filledForm == [name |-> <<"A">>, count |-> SetupCount]

\* String.prototype.trim: whitespace is removed at both ends
RECURSIVE trimStart(_)
trimStart(s) == IF s # <<>> /\ Head(s) = " " THEN trimStart(Tail(s)) ELSE s

Reverse(s) == [i \in 1..Len(s) |-> s[Len(s) + 1 - i]]

trim(s) == Reverse(trimStart(Reverse(trimStart(s))))

\* constants.ts getRoleDistribution: a table by bands of the player count, more
\* werewolves for more players, villagers filling the remainder
ExtraWerewolves(count) == (count - MinPlayers) \div 4

getRoleDistribution(count) ==
    <<"VILLAGER", "WEREWOLF", "SEER", "WITCH">>
        \o [i \in 1..ExtraWerewolves(count) |-> "WEREWOLF"]
        \o [i \in 1..(count - 4 - ExtraWerewolves(count)) |-> "VILLAGER"]

\* a loop body that copies roles[j] to roles[i] and drops the old roles[i]
RECURSIVE ShuffleOverwriting(_, _, _)
ShuffleOverwriting(roles, i, j) ==
    IF i < 1 THEN roles
    ELSE ShuffleOverwriting([roles EXCEPT ![i + 1] = roles[j[i] + 1]], i - 1, j)

\* the Fisher-Yates loop: for i = length-1 down to 1, swap roles[i] and roles[j(i)]
RECURSIVE Shuffle(_, _, _)
Shuffle(roles, i, j) ==
    IF i < 1 THEN roles
    ELSE Shuffle([roles EXCEPT ![i + 1] = roles[j[i] + 1], ![j[i] + 1] = roles[i + 1]],
                 i - 1, j)

\* the seats a run lets the shuffle swap with seat 0: the first limit.shuffles seats,
\* or the one seat limit.seat
SeatDraws(n) ==
    IF "seat" \in DOMAIN limit THEN {limit.seat}
    ELSE 0..(Min(n, limit.shuffles) - 1)

\* the days a run plays
Days == IF "days" \in DOMAIN limit THEN limit.days ELSE MaxDay

\* the draws j(i) = Math.floor(Math.random() * (i + 1)) the model takes: every draw
\* of 0..i for a table of FullShuffleSeats when the run allows that many, otherwise
\* draw k swaps seat k with seat 0 and leaves the other seats, for k in SeatDraws
ShuffleDraws(n) ==
    IF n <= FullShuffleSeats /\ limit.shuffles >= n
    THEN {j \in [1..(n - 1) -> 0..(n - 1)] : \A i \in 1..(n - 1) : j[i] <= i}
    ELSE {[i \in 1..(n - 1) |-> IF i = k THEN 0 ELSE i] : k \in SeatDraws(n)}

\* Array.from({ length: setupCount }), one player for each role of the list
newPlayers(roles) ==
    [idx1 \in 1..Len(roles) |->
        [id |-> PlayerId(idx1 - 1),
         role |-> roles[idx1],
         isBot |-> idx1 - 1 # 0,
         isAlive |-> TRUE,
         isDying |-> FALSE,
         isProtected |-> FALSE,
         isPoisoned |-> FALSE,
         voteTargetId |-> Null]]

\* a start that builds the new game on the state it finds instead of initialState
handleStartGameOnOldState ==
    /\ ~effectPending
    /\ state.phase = "SETUP"
    /\ gamesStarted < limit.games
    /\ trim(setup.name) # <<>>
    /\ \E j \in ShuffleDraws(setup.count) :
          LET roles == Shuffle(getRoleDistribution(setup.count), setup.count - 1, j)
              ps == newPlayers(roles)
          IN Commit([state EXCEPT !.phase = "NIGHT_START", !.players = ps,
                                  !.humanPlayerId = ps[1].id, !.dayCount = 1],
                    pending)
    /\ gamesStarted' = gamesStarted + 1
    /\ UNCHANGED <<selectedTargetId, limit, setup>>

\* a start that does not look at the name
handleStartGameAnyName ==
    /\ ~effectPending
    /\ state.phase = "SETUP"
    /\ gamesStarted < limit.games
    /\ \E j \in ShuffleDraws(setup.count) :
          LET roles == Shuffle(getRoleDistribution(setup.count), setup.count - 1, j)
              ps == newPlayers(roles)
          IN Commit(gameReducer(state, [type |-> "START_GAME", players |-> ps,
                                        humanId |-> ps[1].id]),
                    pending)
    /\ gamesStarted' = gamesStarted + 1
    /\ UNCHANGED <<selectedTargetId, limit, setup>>

handleStartGame ==
    /\ ~effectPending
    /\ state.phase = "SETUP"
    /\ gamesStarted < limit.games
    /\ trim(setup.name) # <<>>
    /\ \E j \in ShuffleDraws(setup.count) :
          LET roles == Shuffle(getRoleDistribution(setup.count), setup.count - 1, j)
              ps == newPlayers(roles)
          IN Commit(gameReducer(state, [type |-> "START_GAME", players |-> ps,
                                        humanId |-> ps[1].id]),
                    pending)
    /\ gamesStarted' = gamesStarted + 1
    /\ UNCHANGED <<selectedTargetId, limit, setup>>

\* the name field: onChange={(e) => setSetupName(e.target.value)}
setSetupName ==
    /\ state.phase = "SETUP"
    /\ \E name \in SetupNames \ {setup.name} : setup' = [setup EXCEPT !.name = name]
    /\ UNCHANGED <<state, selectedTargetId, pending, effectPending, gamesStarted, limit>>

\* the range input, min 6 and max 18: onChange={(e) => setSetupCount(Number(e.target.value))}
setSetupCount ==
    /\ state.phase = "SETUP"
    /\ \E count \in (MinPlayers..MaxPlayers) \ {setup.count} :
          setup' = [setup EXCEPT !.count = count]
    /\ UNCHANGED <<state, selectedTargetId, pending, effectPending, gamesStarted, limit>>

\* the reset buttons: dispatch({ type: 'RESET_GAME' })
ResetGame ==
    /\ ~effectPending
    /\ state.phase # "SETUP"
    /\ Commit(gameReducer(state, [type |-> "RESET_GAME"]), pending)
    /\ UNCHANGED <<selectedTargetId, gamesStarted, limit, setup>>

-----------------------------------------------------------------------------
(* runPhaseLogic: the effect on [state.phase] *)

Map(seq, F(_)) == [i \in DOMAIN seq |-> F(seq[i])]

\* a NIGHT_START update that also brings the player back to life
NightFlagsRevive ==
    [isDying |-> FALSE, isProtected |-> FALSE, isPoisoned |-> FALSE, voteTargetId |-> Null,
     isAlive |-> TRUE]

\* the updates NIGHT_START gives every player
NightFlagsReset ==
    [isDying |-> FALSE, isProtected |-> FALSE, isPoisoned |-> FALSE, voteTargetId |-> Null]

\* a win check whose majority test is strict
WinCheckStrict(s) ==
    IF s.phase # "SETUP" /\ s.phase # "GAME_OVER"
    THEN IF aliveWolves(s) = 0 THEN "VILLAGER"
         ELSE IF aliveWolves(s) > aliveGood(s) THEN "WEREWOLF"
         ELSE Null
    ELSE Null

\* a win check that tests the majority before the extinction of the wolves
WinCheckMajorityFirst(s) ==
    IF s.phase # "SETUP" /\ s.phase # "GAME_OVER"
    THEN IF aliveWolves(s) >= aliveGood(s) THEN "WEREWOLF"
         ELSE IF aliveWolves(s) = 0 THEN "VILLAGER"
         ELSE Null
    ELSE Null

\* a win check that does not notice that no werewolf is left
WinCheckWerewolvesOnly(s) ==
    IF s.phase # "SETUP" /\ s.phase # "GAME_OVER"
    THEN IF aliveWolves(s) > 0 /\ aliveWolves(s) >= aliveGood(s) THEN "WEREWOLF" ELSE Null
    ELSE Null

\* the win condition checked before the phase switch
WinCheck(s) ==
    IF s.phase # "SETUP" /\ s.phase # "GAME_OVER"
    THEN IF aliveWolves(s) = 0 THEN "VILLAGER"
         ELSE IF aliveWolves(s) >= aliveGood(s) THEN "WEREWOLF"
         ELSE Null
    ELSE Null

\* a villager win that falls through to the night-flag reset of NIGHT_START
PhaseWinVillagerFallsThrough ==
    /\ effectPending
    /\ WinCheck(state) = "VILLAGER"
    /\ \E d \in Latencies :
          Commit(Dispatch(state, <<SetWinner("VILLAGER"), NextPhase("GAME_OVER"),
                                   addLog("alert: wolves gone, good side wins")>>
                                 \o Map(state.players,
                                        LAMBDA p : UpdatePlayer(p.id, NightFlagsReset))),
                 Append(pending, Narration("GAME_OVER", <<>>, d)))
    /\ UNCHANGED <<selectedTargetId, gamesStarted, limit, setup>>

\* if (aliveWolves === 0): SET_WINNER, NEXT_PHASE GAME_OVER, the alert, then the
\* awaited GAME_OVER narration
PhaseWinVillager ==
    /\ effectPending
    /\ WinCheck(state) = "VILLAGER"
    /\ \E d \in Latencies :
          Commit(Dispatch(state, <<SetWinner("VILLAGER"), NextPhase("GAME_OVER"),
                                   addLog("alert: wolves gone, good side wins")>>),
                 Append(pending, Narration("GAME_OVER", <<>>, d)))
    /\ UNCHANGED <<selectedTargetId, gamesStarted, limit, setup>>

\* if (aliveWolves >= aliveGood), reached only when the first branch did not return
PhaseWinWerewolf ==
    /\ effectPending
    /\ WinCheck(state) = "WEREWOLF"
    /\ \E d \in Latencies :
          Commit(Dispatch(state, <<SetWinner("WEREWOLF"), NextPhase("GAME_OVER"),
                                   addLog("alert: wolves outnumber, wolves win")>>),
                 Append(pending, Narration("GAME_OVER", <<>>, d)))
    /\ UNCHANGED <<selectedTargetId, gamesStarted, limit, setup>>

\* SETUP and GAME_OVER have no case in the switch
PhaseNoCase ==
    /\ effectPending
    /\ WinCheck(state) = Null
    /\ state.phase \in {"SETUP", "GAME_OVER"}
    /\ Commit(state, pending)
    /\ UNCHANGED <<selectedTargetId, gamesStarted, limit, setup>>

PhaseNightStart ==
    /\ effectPending
    /\ WinCheck(state) = Null
    /\ state.phase = "NIGHT_START"
    /\ \E d \in Latencies :
          Commit(Dispatch(state, Map(state.players, LAMBDA p : UpdatePlayer(p.id, NightFlagsReset))
                                 \o <<SetLastKilled(Null)>>),
                 Append(pending, Narration("NIGHT_START", <<>>, d)))
    /\ UNCHANGED <<selectedTargetId, gamesStarted, limit, setup>>

PhaseNightWerewolf ==
    /\ effectPending
    /\ WinCheck(state) = Null
    /\ state.phase = "NIGHT_WEREWOLF"
    /\ \E d \in Delays("botWerewolf") :
          Commit(Dispatch(state, <<addLog("system: werewolves wake")>>),
                 IF ~HumanHas(state, "WEREWOLF")
                 THEN Append(pending, Timer("botWerewolf", state.players, d))
                 ELSE pending)
    /\ UNCHANGED <<selectedTargetId, gamesStarted, limit, setup>>

PhaseNightSeer ==
    /\ effectPending
    /\ WinCheck(state) = Null
    /\ state.phase = "NIGHT_SEER"
    /\ \E d \in Delays("botSeer") :
          Commit(Dispatch(state, <<addLog("system: seer wakes")>>),
                 IF ~HumanHas(state, "SEER")
                 THEN Append(pending, Timer("botSeer", <<>>, d))
                 ELSE pending)
    /\ UNCHANGED <<selectedTargetId, gamesStarted, limit, setup>>

PhaseNightWitch ==
    /\ effectPending
    /\ WinCheck(state) = Null
    /\ state.phase = "NIGHT_WITCH"
    /\ \E d \in Delays("botWitch") :
          Commit(Dispatch(state, <<addLog("system: witch wakes")>>),
                 IF ~HumanHas(state, "WITCH")
                 THEN Append(pending, Timer("botWitch", <<>>, d))
                 ELSE pending)
    /\ UNCHANGED <<selectedTargetId, gamesStarted, limit, setup>>

\* an elimination rule in which the protection also cancels the poison
DeathMarkedUnlessProtected(p) == (p.isDying \/ p.isPoisoned) /\ ~p.isProtected

\* the elimination rule of NIGHT_END
DeathMarked(p) == (p.isDying /\ ~p.isProtected) \/ p.isPoisoned

\* a resolution that flips isAlive of the marked players instead of clearing it
DeathResolutionFlips(players) ==
    Map(Filter(players, DeathMarked), LAMBDA p : UpdatePlayer(p.id, [isAlive |-> ~p.isAlive]))

\* the UPDATE_PLAYER dispatches of NIGHT_END, in seat order
DeathResolution(players) ==
    Map(Filter(players, DeathMarked), LAMBDA p : UpdatePlayer(p.id, [isAlive |-> FALSE]))

PhaseNightEnd ==
    /\ effectPending
    /\ WinCheck(state) = Null
    /\ state.phase = "NIGHT_END"
    /\ Commit(Dispatch(state, DeathResolution(state.players) \o <<NextPhase("DAY_ANNOUNCE")>>),
              pending)
    /\ UNCHANGED <<selectedTargetId, gamesStarted, limit, setup>>

\* the ids of the players DAY_ANNOUNCE reports as newly dead
newlyDead(s) ==
    Map(Filter(s.players, LAMBDA p : ~p.isAlive /\ (p.isDying \/ p.isPoisoned)),
        LAMBDA p : p.id)

PhaseDayAnnounce ==
    /\ effectPending
    /\ WinCheck(state) = Null
    /\ state.phase = "DAY_ANNOUNCE"
    /\ \E d \in Latencies :
          Commit(state, Append(pending, Narration("DAY_ANNOUNCE", newlyDead(state), d)))
    /\ UNCHANGED <<selectedTargetId, gamesStarted, limit, setup>>

PhaseDayDiscuss ==
    /\ effectPending
    /\ WinCheck(state) = Null
    /\ state.phase = "DAY_DISCUSS"
    /\ Commit(Dispatch(state, <<addLog("system: discussion opens")>>), pending)
    /\ UNCHANGED <<selectedTargetId, gamesStarted, limit, setup>>

\* handleBotVoting: the votes of the alive bots, one random draw each
BotVoters(s) ==
    LET alive == Filter(s.players, LAMBDA p : p.isAlive)
    IN Filter(alive, LAMBDA bot : bot.isBot /\ Len(alive) > 1)

BotVoteDraws(s) ==
    LET alive == Filter(s.players, LAMBDA p : p.isAlive)
        bots == BotVoters(s)
        others(bot) == Filter(alive, LAMBDA p : p.id # bot.id)
    IN {f \in [1..Len(bots) -> {p.id : p \in {alive[i] : i \in DOMAIN alive}}] :
            \A k \in 1..Len(bots) : f[k] \in {p.id : p \in RandomPick(others(bots[k]))}}

handleBotVoting(s, draw) ==
    [k \in 1..Len(BotVoters(s)) |->
        UpdatePlayer(BotVoters(s)[k].id, [voteTargetId |-> draw[k]])]

PhaseDayVote ==
    /\ effectPending
    /\ WinCheck(state) = Null
    /\ state.phase = "DAY_VOTE"
    /\ \E draw \in BotVoteDraws(state) :
          LET h == getHumanPlayer(state)
              dead == h # <<>> /\ ~h[1].isAlive
          IN Commit(Dispatch(state, <<addLog("alert: everyone votes")>>
                                    \o handleBotVoting(state, draw)
                                    \o (IF dead THEN <<addLog("system: you are dead, watching")>>
                                        ELSE <<>>)),
                    IF dead
                    THEN Append(pending, Timer("deadVote", <<>>, Seconds(DelayDeadVote)))
                    ELSE pending)
    /\ UNCHANGED <<selectedTargetId, gamesStarted, limit, setup>>

\* votes[p.voteTargetId] = (votes[p.voteTargetId] || 0) + 1 over the alive players;
\* the entries are kept in insertion order, the order Object.entries lists them in
RECURSIVE countVotes(_, _)
countVotes(voters, votes) ==
    IF voters = <<>> THEN votes
    ELSE LET t == Head(voters).voteTargetId
             at == {i \in DOMAIN votes : votes[i].id = t}
         IN IF t = Null THEN countVotes(Tail(voters), votes)
            ELSE IF at = {}
            THEN countVotes(Tail(voters), Append(votes, [id |-> t, count |-> 1]))
            ELSE countVotes(Tail(voters),
                            [votes EXCEPT ![CHOOSE i \in at : TRUE].count = @ + 1])

\* the forEach over Object.entries(votes): maxVotes, victimId, tie
RECURSIVE scanVotes(_, _)
scanVotes(entries, acc) ==
    IF entries = <<>> THEN acc
    ELSE LET e == Head(entries)
         IN scanVotes(Tail(entries),
                IF e.count > acc.maxVotes
                THEN [maxVotes |-> e.count, victimId |-> e.id, tie |-> FALSE]
                ELSE IF e.count = acc.maxVotes THEN [acc EXCEPT !.tie = TRUE]
                ELSE acc)

\* a tally that also counts the votes of dead players
tallyOfAll(players) ==
    scanVotes(countVotes(players, <<>>), [maxVotes |-> 0, victimId |-> Null, tie |-> FALSE])

tally(players) ==
    scanVotes(countVotes(Filter(players, LAMBDA p : p.isAlive), <<>>),
              [maxVotes |-> 0, victimId |-> Null, tie |-> FALSE])

\* the dispatches of DAY_EXECUTE before its timer
execution(players) ==
    LET r == tally(players)
        victim == Filter(players, LAMBDA p : p.id = r.victimId)
    IN IF r.victimId # Null /\ ~r.tie
       THEN IF victim # <<>>
            THEN <<addLog("alert: executed by vote"),
                   UpdatePlayer(victim[1].id, [isAlive |-> FALSE])>>
            ELSE <<>>
       ELSE <<addLog("system: tie, nobody executed")>>

PhaseDayExecute ==
    /\ effectPending
    /\ WinCheck(state) = Null
    /\ state.phase = "DAY_EXECUTE"
    /\ Commit(Dispatch(state, execution(state.players)),
              Append(pending, Timer("execute", <<>>, Seconds(DelayExecute))))
    /\ UNCHANGED <<selectedTargetId, gamesStarted, limit, setup>>

runPhaseLogic ==
    \/ PhaseWinVillager
    \/ PhaseWinWerewolf
    \/ PhaseNoCase
    \/ PhaseNightStart
    \/ PhaseNightWerewolf
    \/ PhaseNightSeer
    \/ PhaseNightWitch
    \/ PhaseNightEnd
    \/ PhaseDayAnnounce
    \/ PhaseDayDiscuss
    \/ PhaseDayVote
    \/ PhaseDayExecute

-----------------------------------------------------------------------------
(* Completions of pending work *)

\* the continuation after `await generateHostNarration(...)`: the narrative is logged
\* and, for NIGHT_START and DAY_ANNOUNCE, the timer to the next phase is set
NarrationDone ==
    /\ ~effectPending
    /\ \E i \in DOMAIN pending :
          /\ CanComplete(i)
          /\ pending[i].kind = "narration"
          /\ Commit(Dispatch(state, <<addLog("host: " \o pending[i].name)>>),
                    After(i)
                    \o (CASE pending[i].name = "NIGHT_START" ->
                                  <<Timer("toWerewolf", <<>>, Seconds(DelayNightStart))>>
                             [] pending[i].name = "DAY_ANNOUNCE" ->
                                  <<Timer("toDiscuss", <<>>, Seconds(DelayAnnounce))>>
                             [] OTHER -> <<>>))
    /\ UNCHANGED <<selectedTargetId, gamesStarted, limit, setup>>

\* setTimeout(() => dispatch NEXT_PHASE NIGHT_WEREWOLF, 3000)
TimerToWerewolf ==
    /\ ~effectPending
    /\ \E i \in DOMAIN pending :
          /\ CanComplete(i)
          /\ pending[i].kind = "timer" /\ pending[i].name = "toWerewolf"
          /\ Commit(Dispatch(state, <<NextPhase("NIGHT_WEREWOLF")>>), After(i))
    /\ UNCHANGED <<selectedTargetId, gamesStarted, limit, setup>>

\* werewolves that mark nobody
handleBotWerewolfActionIdle(players, target) == <<>>

\* handleBotWerewolfAction over the roster its closure holds
handleBotWerewolfAction(players, target) ==
    IF Len(Filter(players, LAMBDA p : p.isAlive /\ p.role # "WEREWOLF")) > 0
    THEN <<SetLastKilled(target.id), UpdatePlayer(target.id, [isDying |-> TRUE])>>
    ELSE <<>>

WerewolfTargets(players) ==
    LET good == Filter(players, LAMBDA p : p.isAlive /\ p.role # "WEREWOLF")
    IN IF Len(good) > 0 THEN RandomPick(good) ELSE {[id |-> Null]}

TimerBotWerewolf ==
    /\ ~effectPending
    /\ \E i \in DOMAIN pending :
          /\ CanComplete(i)
          /\ pending[i].kind = "timer" /\ pending[i].name = "botWerewolf"
          /\ \E target \in WerewolfTargets(pending[i].snap) :
                Commit(Dispatch(state, handleBotWerewolfAction(pending[i].snap, target)
                                       \o <<NextPhase("NIGHT_SEER")>>),
                       After(i))
    /\ UNCHANGED <<selectedTargetId, gamesStarted, limit, setup>>

\* handleBotSeerAction is empty
TimerBotSeer ==
    /\ ~effectPending
    /\ \E i \in DOMAIN pending :
          /\ CanComplete(i)
          /\ pending[i].kind = "timer" /\ pending[i].name = "botSeer"
          /\ Commit(Dispatch(state, <<NextPhase("NIGHT_WITCH")>>), After(i))
    /\ UNCHANGED <<selectedTargetId, gamesStarted, limit, setup>>

\* handleBotWitchAction is empty
TimerBotWitch ==
    /\ ~effectPending
    /\ \E i \in DOMAIN pending :
          /\ CanComplete(i)
          /\ pending[i].kind = "timer" /\ pending[i].name = "botWitch"
          /\ Commit(Dispatch(state, <<NextPhase("NIGHT_END")>>), After(i))
    /\ UNCHANGED <<selectedTargetId, gamesStarted, limit, setup>>

TimerToDiscuss ==
    /\ ~effectPending
    /\ \E i \in DOMAIN pending :
          /\ CanComplete(i)
          /\ pending[i].kind = "timer" /\ pending[i].name = "toDiscuss"
          /\ Commit(Dispatch(state, <<NextPhase("DAY_DISCUSS")>>), After(i))
    /\ UNCHANGED <<selectedTargetId, gamesStarted, limit, setup>>

TimerDeadVote ==
    /\ ~effectPending
    /\ \E i \in DOMAIN pending :
          /\ CanComplete(i)
          /\ pending[i].kind = "timer" /\ pending[i].name = "deadVote"
          /\ Commit(Dispatch(state, <<NextPhase("DAY_EXECUTE")>>), After(i))
    /\ UNCHANGED <<selectedTargetId, gamesStarted, limit, setup>>

\* setTimeout(() => { INCREMENT_DAY; NEXT_PHASE NIGHT_START }, 3000)
TimerExecute ==
    /\ ~effectPending
    /\ state.dayCount < Days
    /\ \E i \in DOMAIN pending :
          /\ CanComplete(i)
          /\ pending[i].kind = "timer" /\ pending[i].name = "execute"
          /\ Commit(Dispatch(state, <<[type |-> "INCREMENT_DAY"], NextPhase("NIGHT_START")>>),
                    After(i))
    /\ UNCHANGED <<selectedTargetId, gamesStarted, limit, setup>>

\* the timer set by the human seer's confirm
TimerSeerConfirm ==
    /\ ~effectPending
    /\ \E i \in DOMAIN pending :
          /\ CanComplete(i)
          /\ pending[i].kind = "timer" /\ pending[i].name = "seerConfirm"
          /\ Commit(Dispatch(state, <<NextPhase("NIGHT_WITCH")>>), After(i))
    /\ selectedTargetId' = Null
    /\ UNCHANGED <<gamesStarted, limit, setup>>

-----------------------------------------------------------------------------
(* Human intents, as the rendered controls offer them *)

\* PlayerCard onClick
SelectTarget ==
    /\ ~effectPending
    /\ state.phase # "SETUP"
    /\ \E i \in DOMAIN state.players :
          /\ isHumanTurn(state)
          /\ state.players[i].isAlive
          /\ state.players[i].id # state.humanPlayerId
          /\ selectedTargetId' = state.players[i].id
    /\ UNCHANGED <<state, pending, effectPending, gamesStarted, limit, setup>>

\* a check that answers with the target's faction the wrong way round
seerCheckInverted(s, sel) ==
    LET target == Filter(s.players, LAMBDA p : p.id = sel)
    IN IF target # <<>>
       THEN <<SetSeerResult(<<[name |-> target[1].id,
                               isWerewolf |-> target[1].role # "WEREWOLF"]>>),
              addLog("check result")>>
       ELSE <<>>

\* the seer's check of the selected player: the result and its log line
seerCheck(s, sel) ==
    LET target == Filter(s.players, LAMBDA p : p.id = sel)
    IN IF target # <<>>
       THEN <<SetSeerResult(<<[name |-> target[1].id,
                               isWerewolf |-> target[1].role = "WEREWOLF"]>>),
              addLog("check result")>>
       ELSE <<>>

\* a confirm handler that does not ask whether the human is alive
humanActionOfTheDead(s, sel) ==
    LET h == getHumanPlayer(s)
        none == [actions |-> <<>>, tasks |-> <<>>, selected |-> sel]
    IN IF h = <<>> THEN none
       ELSE IF sel = Null /\ s.phase # "DAY_DISCUSS" THEN none
       ELSE IF s.phase = "NIGHT_WEREWOLF" /\ h[1].role = "WEREWOLF"
       THEN [actions |-> <<SetLastKilled(sel), UpdatePlayer(sel, [isDying |-> TRUE]),
                           addLog("system: you attacked"), NextPhase("NIGHT_SEER")>>,
             tasks |-> <<>>, selected |-> Null]
       ELSE IF s.phase = "NIGHT_SEER" /\ h[1].role = "SEER"
       THEN [actions |-> seerCheck(s, sel),
             tasks |-> <<Timer("seerConfirm", <<>>, Seconds(DelaySeerConfirm))>>,
             selected |-> sel]
       ELSE IF s.phase = "DAY_VOTE" /\ sel # Null
       THEN [actions |-> <<UpdatePlayer(h[1].id, [voteTargetId |-> sel]),
                           addLog("system: you voted"), NextPhase("DAY_EXECUTE")>>,
             tasks |-> <<>>, selected |-> Null]
       ELSE none

\* what handleHumanAction dispatches, sets pending and leaves selected
humanAction(s, sel) ==
    LET h == getHumanPlayer(s)
        none == [actions |-> <<>>, tasks |-> <<>>, selected |-> sel]
    IN IF h = <<>> \/ ~h[1].isAlive THEN none
       ELSE IF sel = Null /\ s.phase # "DAY_DISCUSS" THEN none
       ELSE IF s.phase = "NIGHT_WEREWOLF" /\ h[1].role = "WEREWOLF"
       THEN IF sel # Null
            THEN [actions |-> <<SetLastKilled(sel), UpdatePlayer(sel, [isDying |-> TRUE]),
                                addLog("system: you attacked"), NextPhase("NIGHT_SEER")>>,
                  tasks |-> <<>>, selected |-> Null]
            ELSE none
       ELSE IF s.phase = "NIGHT_SEER" /\ h[1].role = "SEER"
       THEN IF sel # Null
            THEN [actions |-> seerCheck(s, sel),
                  tasks |-> <<Timer("seerConfirm", <<>>, Seconds(DelaySeerConfirm))>>,
                  selected |-> sel]
            ELSE none
       ELSE IF s.phase = "DAY_VOTE"
       THEN IF sel # Null
            THEN [actions |-> <<UpdatePlayer(h[1].id, [voteTargetId |-> sel]),
                                addLog("system: you voted"), NextPhase("DAY_EXECUTE")>>,
                  tasks |-> <<>>, selected |-> Null]
            ELSE none
       ELSE none

SeerTimers == Len(SelectSeq(pending, LAMBDA w : w.name = "seerConfirm"))

\* the confirm button: shown on the human's turn, enabled with a selection
handleHumanAction ==
    /\ ~effectPending
    /\ state.phase # "SETUP"
    /\ isHumanTurn(state)
    /\ selectedTargetId # Null
    /\ LET r == humanAction(state, selectedTargetId)
       IN /\ Len(r.tasks) > 0 => SeerTimers < MaxSeerTimers
          /\ \E rest \in Elapsed(pending) : Commit(Dispatch(state, r.actions), rest \o r.tasks)
          /\ selectedTargetId' = r.selected
    /\ UNCHANGED <<gamesStarted, limit, setup>>

\* a save that leaves the victim's isDying mark
witchSaveKeepsDying(s) ==
    IF s.lastKilledId # Null /\ s.witchPotions.save
    THEN <<UpdatePlayer(s.lastKilledId, [isProtected |-> TRUE]),
           SetWitchPotion("save", TRUE), addLog("system: you used the antidote")>>
    ELSE <<>>

\* a save that does not look at the potion
witchSaveAlways(s) ==
    IF s.lastKilledId # Null
    THEN <<UpdatePlayer(s.lastKilledId, [isDying |-> FALSE, isProtected |-> TRUE]),
           SetWitchPotion("save", TRUE), addLog("system: you used the antidote")>>
    ELSE <<>>

witchSave(s) ==
    IF s.lastKilledId # Null /\ s.witchPotions.save
    THEN <<UpdatePlayer(s.lastKilledId, [isDying |-> FALSE, isProtected |-> TRUE]),
           SetWitchPotion("save", TRUE), addLog("system: you used the antidote")>>
    ELSE <<>>

\* the antidote button: shown on the witch's turn when lastKilledId is set, enabled
\* while the save potion is left
handleWitchSave ==
    /\ ~effectPending
    /\ isHumanTurn(state) /\ state.phase = "NIGHT_WITCH"
    /\ state.lastKilledId # Null
    /\ state.witchPotions.save
    /\ Commit(Dispatch(state, witchSave(state)), pending)
    /\ UNCHANGED <<selectedTargetId, gamesStarted, limit, setup>>

\* a poison given to the werewolves' victim instead of the selected player
witchPoisonVictim(s, sel) ==
    IF sel # Null /\ s.witchPotions.poison
    THEN <<UpdatePlayer(s.lastKilledId, [isPoisoned |-> TRUE]), SetWitchPotion("poison", TRUE),
           addLog("system: you used the poison"), NextPhase("NIGHT_END")>>
    ELSE <<>>

witchPoison(s, sel) ==
    IF sel # Null /\ s.witchPotions.poison
    THEN <<UpdatePlayer(sel, [isPoisoned |-> TRUE]), SetWitchPotion("poison", TRUE),
           addLog("system: you used the poison"), NextPhase("NIGHT_END")>>
    ELSE <<>>

\* the poison button: shown on the witch's turn, enabled with a selection and the potion
handleWitchPoison ==
    /\ ~effectPending
    /\ isHumanTurn(state) /\ state.phase = "NIGHT_WITCH"
    /\ selectedTargetId # Null
    /\ state.witchPotions.poison
    /\ \E rest \in Elapsed(pending) :
          Commit(Dispatch(state, witchPoison(state, selectedTargetId)), rest)
    /\ selectedTargetId' = Null
    /\ UNCHANGED <<gamesStarted, limit, setup>>

skip(s) ==
    (IF s.phase = "NIGHT_WITCH" THEN <<NextPhase("NIGHT_END")>> ELSE <<>>)
    \o (IF s.phase = "DAY_DISCUSS" THEN <<NextPhase("DAY_VOTE")>> ELSE <<>>)

\* the call-vote button (DAY_DISCUSS) and the do-nothing button (the witch's turn)
skipPhase ==
    /\ ~effectPending
    /\ \/ state.phase = "DAY_DISCUSS"
       \/ state.phase = "NIGHT_WITCH" /\ isHumanTurn(state)
    /\ \E rest \in Elapsed(pending) : Commit(Dispatch(state, skip(state)), rest)
    /\ UNCHANGED <<selectedTargetId, gamesStarted, limit, setup>>

-----------------------------------------------------------------------------
(* The program *)

\* One game with MaxRand random draws and MaxShuffle shuffles, or MaxGames games
\* with the first draw and the first shuffle only
Limits ==
    {[draws |-> MaxRand, games |-> 1, shuffles |-> MaxShuffle],
     [draws |-> 1, games |-> MaxGames, shuffles |-> 1]}

Init ==
    /\ state = initialState
    /\ selectedTargetId = Null
    /\ pending = <<>>
    /\ effectPending = TRUE
    /\ gamesStarted = 0
    /\ limit \in Limits
    /\ setup = filledForm

Next ==
    \/ handleStartGame
    \/ ResetGame
    \/ PhaseWinVillager
    \/ PhaseWinWerewolf
    \/ PhaseNoCase
    \/ PhaseNightStart
    \/ PhaseNightWerewolf
    \/ PhaseNightSeer
    \/ PhaseNightWitch
    \/ PhaseNightEnd
    \/ PhaseDayAnnounce
    \/ PhaseDayDiscuss
    \/ PhaseDayVote
    \/ PhaseDayExecute
    \/ NarrationDone
    \/ TimerToWerewolf
    \/ TimerBotWerewolf
    \/ TimerBotSeer
    \/ TimerBotWitch
    \/ TimerToDiscuss
    \/ TimerDeadVote
    \/ TimerExecute
    \/ TimerSeerConfirm
    \/ SelectTarget
    \/ handleHumanAction
    \/ handleWitchSave
    \/ handleWitchPoison
    \/ skipPhase

Spec == Init /\ [][Next]_vars

-----------------------------------------------------------------------------
(* Single evaluations of runPhaseLogic on enumerated game states *)

\* the unshuffled roster of a game in progress
seated == newPlayers(getRoleDistribution(SetupCount))

playing(players, phase) ==
    [gameReducer(initialState, [type |-> "START_GAME", players |-> players,
                                humanId |-> players[1].id])
        EXCEPT !.phase = phase]

\* any split of the seats into werewolves and others, any of them dead, in any phase
\* of the cycle
EvalFactions ==
    \E roles \in [1..SetupCount -> {"WEREWOLF", "VILLAGER"}] :
    \E alive \in [1..SetupCount -> BOOLEAN] :
    \E phase \in GamePhase \ {"SETUP", "GAME_OVER"} :
        state = playing([i \in 1..SetupCount |->
                            [newPlayers(roles)[i] EXCEPT !.isAlive = alive[i]]],
                        phase)

\* any night marks on the first MaxMarked seats, dead or alive, at NIGHT_END
EvalMarks ==
    \E alive, dying, protected, poisoned \in [1..MaxMarked -> BOOLEAN] :
        state = playing([i \in 1..SetupCount |->
                            IF i <= MaxMarked
                            THEN [seated[i] EXCEPT !.isAlive = alive[i],
                                                   !.isDying = dying[i],
                                                   !.isProtected = protected[i],
                                                   !.isPoisoned = poisoned[i]]
                            ELSE seated[i]],
                        "NIGHT_END")

\* any votes for the first MaxCandidates seats, the first and the last seat dead or
\* alive, at DAY_EXECUTE
EvalVotes ==
    \E votes \in [1..SetupCount -> {Null} \cup {PlayerId(c - 1) : c \in 1..MaxCandidates}] :
    \E first, last \in BOOLEAN :
        state = playing([i \in 1..SetupCount |->
                            [seated[i] EXCEPT !.voteTargetId = votes[i],
                                              !.isAlive = IF i = 1 THEN first
                                                          ELSE IF i = SetupCount THEN last
                                                          ELSE TRUE]],
                        "DAY_EXECUTE")

InitEval ==
    /\ EvalFactions \/ EvalMarks \/ EvalVotes
    /\ selectedTargetId = Null
    /\ pending = <<>>
    /\ effectPending = TRUE
    /\ gamesStarted = 1
    /\ limit = [draws |-> MaxRand, games |-> 1, shuffles |-> MaxShuffle]
    /\ setup = filledForm

SpecEval == InitEval /\ [][runPhaseLogic]_vars

-----------------------------------------------------------------------------
(* Properties *)

Seats(players, Has(_)) == {i \in DOMAIN players : Has(players[i])}
WolvesAlive(players) ==
    Cardinality(Seats(players, LAMBDA p : p.isAlive /\ p.role = "WEREWOLF"))
GoodAlive(players) ==
    Cardinality(Seats(players, LAMBDA p : p.isAlive /\ p.role # "WEREWOLF"))
InPlay(s) == s.phase \notin {"SETUP", "GAME_OVER"}
WinHolds(s) ==
    InPlay(s) /\ (WolvesAlive(s.players) = 0 \/ WolvesAlive(s.players) >= GoodAlive(s.players))

\* C1: an evaluation of the phase logic in a phase other than SETUP and GAME_OVER
\* sets winner VILLAGER and phase GAME_OVER when no werewolf is alive, else winner
\* WEREWOLF and phase GAME_OVER when the alive werewolves are at least as many as
\* the alive others, and else sets no winner and does not go to GAME_OVER.
WinEvaluatorOutcome ==
    [][(effectPending /\ InPlay(state)) =>
          IF WolvesAlive(state.players) = 0
          THEN state'.winner = "VILLAGER" /\ state'.phase = "GAME_OVER"
          ELSE IF WolvesAlive(state.players) >= GoodAlive(state.players)
          THEN state'.winner = "WEREWOLF" /\ state'.phase = "GAME_OVER"
          ELSE state'.winner = state.winner /\ state'.phase # "GAME_OVER"]_vars

\* two werewolves against two others, all four alive, evaluated as a WEREWOLF win
WinTwoAgainstTwo ==
    /\ state.phase = "GAME_OVER"
    /\ state.winner = "WEREWOLF"
    /\ WolvesAlive(state.players) = 2
    /\ GoodAlive(state.players) = 2

\* C2: in every state winner = WEREWOLF implies an alive werewolf, and a game over
\* with no werewolf alive has winner VILLAGER, also when nobody at all is alive.
WinCheckOrdering ==
    /\ state.winner = "WEREWOLF" => WolvesAlive(state.players) >= 1
    /\ (state.phase = "GAME_OVER" /\ WolvesAlive(state.players) = 0) =>
          state.winner = "VILLAGER"

\* the game is over with nobody alive on either side, and the villagers have won
WinNobodyAlive ==
    /\ state.phase = "GAME_OVER"
    /\ state.winner = "VILLAGER"
    /\ state.players # <<>>
    /\ WolvesAlive(state.players) = 0
    /\ GoodAlive(state.players) = 0

\* C3: an evaluation at which a win condition holds changes nothing of the game
\* state but winner, phase (to GAME_OVER) and the log, which it extends, and the
\* only work it leaves pending is the narration of the game over: no timer is set.
WinShortCircuit ==
    [][(effectPending /\ WinHolds(state)) =>
          /\ state'.phase = "GAME_OVER"
          /\ state' = [state EXCEPT !.winner = state'.winner, !.phase = "GAME_OVER",
                                    !.logs = state'.logs]
          /\ Len(state'.logs) > Len(state.logs)
          /\ SubSeq(state'.logs, 1, Len(state.logs)) = state.logs
          /\ Len(pending') = Len(pending) + 1
          /\ SubSeq(pending', 1, Len(pending)) = pending
          /\ pending'[Len(pending')].kind = "narration"
          /\ pending'[Len(pending')].name = "GAME_OVER"]_vars

\* a win found on entering NIGHT_START: the votes of the day are still in place
WinBeforeNightReset ==
    /\ state.phase = "GAME_OVER"
    /\ effectPending
    /\ state.winner = "VILLAGER"
    /\ \E i \in DOMAIN state.players : state.players[i].voteTargetId # Null

\* the successor of each phase in the cycle
CycleNext ==
    [NIGHT_START |-> "NIGHT_WEREWOLF", NIGHT_WEREWOLF |-> "NIGHT_SEER",
     NIGHT_SEER |-> "NIGHT_WITCH", NIGHT_WITCH |-> "NIGHT_END",
     NIGHT_END |-> "DAY_ANNOUNCE", DAY_ANNOUNCE |-> "DAY_DISCUSS",
     DAY_DISCUSS |-> "DAY_VOTE", DAY_VOTE |-> "DAY_EXECUTE",
     DAY_EXECUTE |-> "NIGHT_START"]

\* C4: every change of the phase goes to the successor in the cycle, from SETUP to
\* NIGHT_START, from a phase other than SETUP to GAME_OVER, or to SETUP.
PhaseOrder ==
    [][state'.phase # state.phase =>
          \/ state.phase \in DOMAIN CycleNext /\ state'.phase = CycleNext[state.phase]
          \/ state.phase = "SETUP" /\ state'.phase = "NIGHT_START"
          \/ state.phase # "SETUP" /\ state'.phase = "GAME_OVER"
          \/ state'.phase = "SETUP"]_vars

\* C5: once the phase is GAME_OVER with a winner, phase and winner stay as they are
\* until a reset puts the initial state back.
GameOverTerminal ==
    [][(state.phase = "GAME_OVER" /\ state.winner # Null) =>
          \/ state'.phase = "GAME_OVER" /\ state'.winner = state.winner
          \/ state' = initialState]_vars

\* C6: between a reset and the next start of a game the phase stays SETUP, the
\* roster empty, winner null and lastKilledId null, whatever pending work completes.
StaleWorkDiscarded ==
    [][state.phase = "SETUP" =>
          \/ /\ state'.phase = "SETUP"
             /\ state'.players = <<>>
             /\ state'.winner = Null
             /\ state'.lastKilledId = Null
          \/ /\ state'.phase = "NIGHT_START"
             /\ state'.players # <<>>
             /\ state'.dayCount = 1]_vars

Neutral(s) ==
    /\ \A i \in DOMAIN s.players :
          /\ ~s.players[i].isDying
          /\ ~s.players[i].isProtected
          /\ ~s.players[i].isPoisoned
          /\ s.players[i].voteTargetId = Null
    /\ s.lastKilledId = Null

\* C9: once NIGHT_START has been entered and evaluated, every player has isDying,
\* isProtected and isPoisoned false and voteTargetId null, and lastKilledId is null;
\* the same holds whenever the phase is NIGHT_WEREWOLF, where no kill is chosen yet.
NightReset ==
    (~effectPending /\ state.phase \in {"NIGHT_START", "NIGHT_WEREWOLF"}) => Neutral(state)

\* C7: when NIGHT_END is resolved, a player is alive afterwards iff the player was
\* alive before and is not (isDying and not isProtected) and is not isPoisoned; no
\* other field of any player changes.
NightEndDeaths ==
    [][(effectPending /\ state.phase = "NIGHT_END" /\ state'.phase = "DAY_ANNOUNCE") =>
          /\ DOMAIN state'.players = DOMAIN state.players
          /\ \A i \in DOMAIN state.players :
                LET p == state.players[i]
                IN state'.players[i] =
                      [p EXCEPT !.isAlive =
                          p.isAlive /\ ~((p.isDying /\ ~p.isProtected) \/ p.isPoisoned)]]_vars

\* after NIGHT_END a protected victim of the werewolves is alive and a protected
\* victim of the poison is dead
NightEndProtectedAndPoisoned ==
    /\ state.phase = "DAY_ANNOUNCE"
    /\ \E i, j \in DOMAIN state.players :
          /\ state.players[i].isDying /\ state.players[i].isProtected
          /\ ~state.players[i].isPoisoned /\ state.players[i].isAlive
          /\ state.players[j].isPoisoned /\ state.players[j].isProtected
          /\ ~state.players[j].isAlive

\* C8: applying the elimination rule of NIGHT_END to the roster NIGHT_END has left,
\* with the same marks, leaves every player alive or dead as that player is.
DeathResolutionIdempotent ==
    (effectPending /\ state.phase = "DAY_ANNOUNCE") =>
        LET again == Dispatch(state, DeathResolution(state.players)).players
        IN \A i \in DOMAIN state.players : again[i].isAlive = state.players[i].isAlive

\* NIGHT_END has just eliminated one player by the werewolves' mark and another by
\* the poison, and spared an unmarked one
NightEndTwoDeaths ==
    /\ effectPending
    /\ state.phase = "DAY_ANNOUNCE"
    /\ \E i, j, k \in DOMAIN state.players :
          /\ state.players[i].isDying /\ ~state.players[i].isProtected
          /\ ~state.players[i].isPoisoned /\ ~state.players[i].isAlive
          /\ state.players[j].isPoisoned /\ ~state.players[j].isDying
          /\ ~state.players[j].isAlive
          /\ ~DeathMarked(state.players[k]) /\ state.players[k].isAlive

\* the votes of the alive players for candidate c
VotesFor(players, c) ==
    Cardinality(Seats(players, LAMBDA p : p.isAlive /\ p.voteTargetId = c))

\* the candidate with strictly more votes than every other, if there is one
Executed(players) ==
    LET cands == {players[i].voteTargetId : i \in Seats(players, LAMBDA p : p.isAlive)}
                    \ {Null}
        top == {c \in cands : \A d \in cands \ {c} : VotesFor(players, d) < VotesFor(players, c)}
    IN IF top = {} THEN Null ELSE CHOOSE c \in top : TRUE

\* C10: when DAY_EXECUTE is resolved, the player executed is the candidate with
\* strictly the most votes of alive players; with the top count shared, or without
\* votes, nobody is executed; nothing else of the roster changes.
VoteTally ==
    [][(effectPending /\ state.phase = "DAY_EXECUTE" /\ state'.phase = "DAY_EXECUTE") =>
          /\ DOMAIN state'.players = DOMAIN state.players
          /\ \A i \in DOMAIN state.players :
                LET p == state.players[i]
                IN state'.players[i] =
                      [p EXCEPT !.isAlive = p.isAlive /\ p.id # Executed(state.players)]]_vars

AllVotesFor(c) == Cardinality(Seats(state.players, LAMBDA p : p.voteTargetId = c))

\* DAY_EXECUTE resolved with one vote for the first seat, one for the second and two
\* for the third, every voter alive: the third player is executed
VoteLastCandidateWins ==
    /\ state.phase = "DAY_EXECUTE"
    /\ ~effectPending
    /\ AllVotesFor("p-0") = 1 /\ AllVotesFor("p-1") = 1 /\ AllVotesFor("p-2") = 2
    /\ \A i \in DOMAIN state.players : state.players[i].isAlive <=> i # 3

\* the seats whose player is alive before and dead after
Died(before, after) ==
    {i \in DOMAIN before : before[i].isAlive /\ ~after[i].isAlive}

\* C11: while the phase is DAY_EXECUTE, its evaluation takes the life of at most one
\* player and changes nothing else of the roster, and no other step changes the
\* roster at all, until the phase is NIGHT_START (or the game is reset).
OneExecutionPerDay ==
    [][(state.phase = "DAY_EXECUTE" /\ state' # initialState) =>
          /\ DOMAIN state'.players = DOMAIN state.players
          /\ Cardinality(Died(state.players, state'.players)) <= (IF effectPending THEN 1 ELSE 0)
          /\ \A i \in DOMAIN state.players :
                state'.players[i] =
                    [state.players[i] EXCEPT
                        !.isAlive = @ /\ i \notin Died(state.players, state'.players)]]_vars

\* C12: dayCount is 1 after the start of a game and changes in a game only by one,
\* upwards, on the step from DAY_EXECUTE to NIGHT_START; that step always counts.
DayCountSteps ==
    [][/\ (state.players = <<>> /\ state'.players # <<>>) => state'.dayCount = 1
       /\ (state.players # <<>> /\ state' # initialState) =>
             IF state.phase = "DAY_EXECUTE" /\ state'.phase = "NIGHT_START"
             THEN state'.dayCount = state.dayCount + 1
             ELSE state'.dayCount = state.dayCount]_vars

\* any target the human may have selected
Selections == {Null} \cup {PlayerId(i - 1) : i \in 1..SetupCount}

\* C13: in a game each witch potion changes only from true to false, and with a
\* potion false the witch's intent for it (the save, the poison on any selection)
\* changes nothing of the game state.
PotionsSingleUse ==
    [][(state.players # <<>> /\ state' # initialState) =>
          /\ state'.witchPotions.save => state.witchPotions.save
          /\ state'.witchPotions.poison => state.witchPotions.poison
          /\ ~state.witchPotions.save => Dispatch(state, witchSave(state)) = state
          /\ ~state.witchPotions.poison =>
                \A sel \in Selections : Dispatch(state, witchPoison(state, sel)) = state]_vars

\* the witch's turn in a later night with both potions spent, a victim marked and a
\* target selected
PotionsBothSpent ==
    /\ state.phase = "NIGHT_WITCH" /\ isHumanTurn(state)
    /\ ~state.witchPotions.save /\ ~state.witchPotions.poison
    /\ state.lastKilledId # Null
    /\ selectedTargetId # Null

\* C14: the save potion is spent only with lastKilledId set; the step that spends it
\* sets isDying false and isProtected true on the player lastKilledId and changes
\* nothing else but the potion and the log; without lastKilledId or without the
\* potion the save changes nothing; and a player protected and not poisoned who is
\* alive when NIGHT_END is resolved is alive after it.
WitchSaveEffect ==
    [][/\ (state.witchPotions.save /\ ~state'.witchPotions.save) =>
             /\ state.lastKilledId # Null
             /\ state' = [state EXCEPT
                   !.witchPotions.save = FALSE,
                   !.logs = state'.logs,
                   !.players = [i \in DOMAIN state.players |->
                                   IF state.players[i].id = state.lastKilledId
                                   THEN [state.players[i] EXCEPT !.isDying = FALSE,
                                                                 !.isProtected = TRUE]
                                   ELSE state.players[i]]]
       /\ (state.lastKilledId = Null \/ ~state.witchPotions.save) =>
             Dispatch(state, witchSave(state)) = state
       /\ (effectPending /\ state.phase = "NIGHT_END" /\ state'.phase = "DAY_ANNOUNCE") =>
             \A i \in DOMAIN state.players :
                (state.players[i].isAlive /\ state.players[i].isProtected
                    /\ ~state.players[i].isPoisoned) => state'.players[i].isAlive]_vars

\* NIGHT_END resolved after a save: the werewolves' victim is protected and alive
WitchSavedVictimAlive ==
    /\ state.phase = "DAY_ANNOUNCE"
    /\ ~state.witchPotions.save
    /\ \E i \in DOMAIN state.players :
          /\ state.players[i].id = state.lastKilledId
          /\ state.players[i].isProtected /\ ~state.players[i].isDying
          /\ state.players[i].isAlive

-----------------------------------------------------------------------------
(* The human's turn in games with any number of werewolves *)

\* a game in progress in any phase of the cycle, its phase evaluated and no win
\* found, nothing pending, no target selected
InitTurn ==
    /\ EvalFactions
    /\ WinCheck(state) = Null
    /\ selectedTargetId = Null
    /\ pending = <<>>
    /\ effectPending = FALSE
    /\ gamesStarted = 1
    /\ limit = [draws |-> MaxRand, games |-> 1, shuffles |-> MaxShuffle]
    /\ setup = filledForm

NextTurn == SelectTarget \/ handleHumanAction

SpecTurn == InitTurn /\ [][NextTurn]_vars

\* C16: whenever lastKilledId is set, it names a player who is alive and not a
\* werewolf, and that player gets isDying.
KillTargetLegal ==
    [][(state'.lastKilledId # state.lastKilledId /\ state'.lastKilledId # Null) =>
          \E i \in DOMAIN state.players :
             /\ state.players[i].id = state'.lastKilledId
             /\ state.players[i].isAlive
             /\ state.players[i].role # "WEREWOLF"
             /\ state'.players[i].isDying]_vars

\* C17: a seer check (the step that starts a seerConfirm timer) sets seerCheckResult
\* to the selected player's name with isWerewolf = (role = WEREWOLF), whatever the
\* previous result was, and changes no player, no potion, not lastKilledId, not
\* dayCount, not winner and not the phase.
SeerCheckPureRead ==
    [][SeerTimers' > SeerTimers =>
          /\ \E i \in DOMAIN state.players :
                /\ state.players[i].id = selectedTargetId
                /\ state'.seerCheckResult =
                      <<[name |-> state.players[i].id,
                         isWerewolf |-> state.players[i].role = "WEREWOLF"]>>
          /\ state'.players = state.players
          /\ state'.witchPotions = state.witchPotions
          /\ state'.lastKilledId = state.lastKilledId
          /\ state'.dayCount = state.dayCount
          /\ state'.winner = state.winner
          /\ state'.phase = state.phase]_vars

\* the seer has checked twice in one night and the last check found the werewolf
SeerCheckedTwiceFoundWolf ==
    /\ state.phase = "NIGHT_SEER"
    /\ SeerTimers = MaxSeerTimers
    /\ state.seerCheckResult # <<>>
    /\ state.seerCheckResult[1].isWerewolf
    /\ state.seerCheckResult[1].name = selectedTargetId

-----------------------------------------------------------------------------
(* Progress: the effect runs after every phase change, a timer that is due fires, and
   a narration request is answered unless the service never answers it *)

\* generateContent never settles: the await does not return and what follows it in
\* runPhaseLogic never runs
NarrationLost ==
    /\ ~effectPending
    /\ \E i \in DOMAIN pending :
          /\ pending[i].kind = "narration"
          /\ pending' = Remove(pending, i)
    /\ UNCHANGED <<state, selectedTargetId, effectPending, gamesStarted, limit, setup>>

TimerFires ==
    \/ TimerToWerewolf
    \/ TimerBotWerewolf
    \/ TimerBotSeer
    \/ TimerBotWitch
    \/ TimerToDiscuss
    \/ TimerDeadVote
    \/ TimerExecute
    \/ TimerSeerConfirm

NextTimers == Next \/ NarrationLost

\* runPhaseLogic is enabled exactly while the effect is due, so the first fairness
\* condition is WF_vars(runPhaseLogic) written out
SpecTimers ==
    /\ Init /\ [][NextTimers]_vars
    /\ ([]<>(~effectPending) \/ []<><<runPhaseLogic>>_vars)
    /\ WF_vars(TimerFires)
    /\ WF_vars(NarrationDone)

\* C18: the phases NIGHT_START and DAY_ANNOUNCE are always left again, whether or
\* not the narration requested for them is answered.
NarrationNeverBlocks ==
    /\ (state.phase = "NIGHT_START") ~> (state.phase # "NIGHT_START")
    /\ (state.phase = "DAY_ANNOUNCE") ~> (state.phase # "DAY_ANNOUNCE")

HumanRole(s) == LET h == getHumanPlayer(s) IN IF h = <<>> THEN Null ELSE h[1].role

\* the confirm handler changes nothing: no dispatch and no timer
Ignored(s, sel) ==
    LET r == humanAction(s, sel) IN Dispatch(s, r.actions) = s /\ r.tasks = <<>>

\* C19: in every reachable state the handlers leave the game state as it is for a
\* confirm or vote while the human is dead, a confirm with no selection, a werewolf
\* or seer confirm by a human without that role or outside the role's phase, a save
\* with no lastKilledId or no save potion, and a poison with no poison potion.
IllegalIntentsIgnored ==
    /\ \A sel \in Selections :
          /\ ~HumanAlive(state) => Ignored(state, sel)
          /\ (state.phase = "NIGHT_WEREWOLF" /\ HumanRole(state) # "WEREWOLF") =>
                Ignored(state, sel)
          /\ (state.phase = "NIGHT_SEER" /\ HumanRole(state) # "SEER") => Ignored(state, sel)
          /\ state.phase \notin {"NIGHT_WEREWOLF", "NIGHT_SEER", "DAY_VOTE"} =>
                Ignored(state, sel)
          /\ ~state.witchPotions.poison => Dispatch(state, witchPoison(state, sel)) = state
    /\ Ignored(state, Null)
    /\ (state.lastKilledId = Null \/ ~state.witchPotions.save) =>
          Dispatch(state, witchSave(state)) = state

\* the vote is open and the human is dead
VoteOpenHumanDead ==
    /\ state.phase = "DAY_VOTE"
    /\ ~effectPending
    /\ getHumanPlayer(state) # <<>>
    /\ ~HumanAlive(state)

\* C20: in every state whose phase is neither SETUP nor GAME_OVER at least one
\* werewolf is alive and the alive werewolves are fewer than the alive others.
WolvesBelowGood ==
    InPlay(state) =>
       /\ 1 <= WolvesAlive(state.players)
       /\ WolvesAlive(state.players) < GoodAlive(state.players)

\* the same between the evaluation of a phase, which the win check let pass, and the
\* next phase change, outside the phase that carries out the execution
WolvesBelowGoodOnceEvaluated ==
    (InPlay(state) /\ ~effectPending /\ state.phase # "DAY_EXECUTE") =>
       /\ 1 <= WolvesAlive(state.players)
       /\ WolvesAlive(state.players) < GoodAlive(state.players)

\* the morning after a night that left one werewolf against two others
MorningOneAgainstTwo ==
    /\ state.phase = "DAY_ANNOUNCE"
    /\ ~effectPending
    /\ WolvesAlive(state.players) = 1
    /\ GoodAlive(state.players) = 2

\* the pending work other than the auto-discussion timeout, which a phase change clears
Uncleared(tasks) == SelectSeq(tasks, LAMBDA w : ~(w.kind = "timer" /\ w.name = "autoDiscuss"))

\* C21: a step that leaves DAY_DISCUSS is the reset or the call-vote intent: it
\* changes the phase to DAY_VOTE and nothing else, and no timer, narration or bot
\* line completes in it.
DiscussNoAutomaticExit ==
    [][(state.phase = "DAY_DISCUSS" /\ state'.phase # "DAY_DISCUSS") =>
          \/ state' = initialState
          \/ /\ state' = [state EXCEPT !.phase = "DAY_VOTE"]
             /\ \E e \in 0..MinLeft(Uncleared(pending)) :
                   pending' = Elapse(Uncleared(pending), e)]_vars

-----------------------------------------------------------------------------
(* The discussion: the auto-discussion timer, the chat box and the bots' lines *)

aliveBots(s) == Filter(s.players, LAMBDA p : p.isBot /\ p.isAlive)

\* the auto-discussion timeout fires: its closure saw DAY_DISCUSS, so it awaits
\* generateBotDiscussion, which answers null at once when no bot is alive
TimerAutoDiscuss ==
    /\ ~effectPending
    /\ \E i \in DOMAIN pending :
          /\ CanComplete(i)
          /\ pending[i].kind = "timer" /\ pending[i].name = "autoDiscuss"
          /\ \E d \in Latencies :
                Commit(state, After(i) \o (IF aliveBots(state) # <<>>
                                           THEN <<Dialogue("auto", d)>>
                                           ELSE <<>>))
    /\ UNCHANGED <<selectedTargetId, gamesStarted, limit, setup>>

\* the continuation after `await generateBotDiscussion(...)` or
\* `await generateBotResponseToUser(...)`: the bot's line is logged
DialogueDone ==
    /\ ~effectPending
    /\ \E i \in DOMAIN pending :
          /\ CanComplete(i)
          /\ pending[i].kind = "dialogue"
          /\ Commit(Dispatch(state, <<addLog(IF pending[i].name = "auto"
                                             THEN "bot: line" ELSE "bot: reply")>>),
                    After(i))
    /\ UNCHANGED <<selectedTargetId, gamesStarted, limit, setup>>

\* the chat box: shown in DAY_DISCUSS to an alive human, disabled while a reply is
\* awaited (isSendingChat)
handleSendChat ==
    /\ ~effectPending
    /\ state.phase = "DAY_DISCUSS"
    /\ HumanAlive(state)
    /\ InFlight(pending, "reply") = 0
    /\ Lines(state, "human: chat") < Chats
    /\ \E rest \in Elapsed(pending), d \in Latencies :
          Commit(Dispatch(state, <<addLog("human: chat")>>),
                 rest \o (IF aliveBots(state) # <<>> THEN <<Dialogue("reply", d)>> ELSE <<>>))
    /\ UNCHANGED <<selectedTargetId, gamesStarted, limit, setup>>

\* One game with MaxSpeeches bot lines and MaxChats chat messages: MaxRand random
\* draws with the first shuffle, or the first draw with MaxShuffle shuffles
TalkLimits ==
    {[draws |-> MaxRand, games |-> 1, shuffles |-> 1,
      speeches |-> MaxSpeeches, chats |-> MaxChats],
     [draws |-> 1, games |-> 1, shuffles |-> MaxShuffle,
      speeches |-> MaxSpeeches, chats |-> MaxChats]}

InitTalk ==
    /\ state = initialState
    /\ selectedTargetId = Null
    /\ pending = <<>>
    /\ effectPending = TRUE
    /\ gamesStarted = 0
    /\ limit \in TalkLimits
    /\ setup = filledForm

NextTalk ==
    \/ Next
    \/ TimerAutoDiscuss
    \/ DialogueDone
    \/ handleSendChat

SpecTalk == InitTalk /\ [][NextTalk]_vars

DeadVoteTimers == Len(SelectSeq(pending, LAMBDA w : w.kind = "timer" /\ w.name = "deadVote"))

\* C22: DAY_VOTE is left for DAY_EXECUTE only. With the human dead the step is the
\* 4000 ms timer, which DAY_VOTE's evaluation has set, and the human's voteTargetId is
\* and stays null; with the human alive the step is the human's confirm, no timer
\* completes in it, it records the selected player as the human's vote and the tally of
\* the alive players' votes counts that vote.
VoteWithHuman ==
    /\ [][(state.phase = "DAY_VOTE" /\ state'.phase # "DAY_VOTE" /\ state' # initialState) =>
            LET h == getHumanPlayer(state)
                h2 == getHumanPlayer(state')
            IN /\ state'.phase = "DAY_EXECUTE"
               /\ h # <<>> /\ h2 # <<>>
               /\ IF h[1].isAlive
                  THEN /\ selectedTargetId # Null
                       /\ h2[1].voteTargetId = selectedTargetId
                       /\ \E e \in 0..MinLeft(pending) : pending' = Elapse(pending, e)
                       /\ \E v \in DOMAIN countVotes(Filter(state'.players, LAMBDA p : p.isAlive), <<>>) :
                             LET entry == countVotes(Filter(state'.players,
                                                            LAMBDA p : p.isAlive), <<>>)[v]
                             IN /\ entry.id = selectedTargetId
                                /\ entry.count = VotesFor(state.players, selectedTargetId) + 1
                  ELSE /\ DeadVoteTimers' = DeadVoteTimers - 1
                       /\ state'.players = state.players
                       /\ h2[1].voteTargetId = Null]_vars
    /\ [](state.phase = "DAY_VOTE" /\ ~effectPending =>
            LET h == getHumanPlayer(state)
            IN h # <<>> /\ (DeadVoteTimers > 0 <=> ~h[1].isAlive))

\* C23: the step that starts a game leaves phase NIGHT_START, dayCount 1, both
\* potions, no winner, no lastKilledId, no seer result, no logs and a roster of
\* SetupCount players, all alive with neutral flags, the human in the first seat,
\* whatever the state was before; a step into SETUP leaves exactly the initial state:
\* phase SETUP, no players, dayCount 0, both potions, no winner, no logs.
StartAndResetFresh ==
    /\ [][gamesStarted' # gamesStarted =>
            /\ state.phase = "SETUP"
            /\ state' = [phase |-> "NIGHT_START", players |-> state'.players,
                         humanPlayerId |-> PlayerId(0), dayCount |-> 1, logs |-> <<>>,
                         winner |-> Null, witchPotions |-> [save |-> TRUE, poison |-> TRUE],
                         lastKilledId |-> Null, seerCheckResult |-> <<>>]
            /\ Len(state'.players) = SetupCount
            /\ \A i \in 1..SetupCount :
                  \E role \in Role :
                     state'.players[i] =
                        [id |-> PlayerId(i - 1), role |-> role, isBot |-> i # 1,
                         isAlive |-> TRUE, isDying |-> FALSE, isProtected |-> FALSE,
                         isPoisoned |-> FALSE, voteTargetId |-> Null]]_vars
    /\ [][(state.phase # "SETUP" /\ state'.phase = "SETUP") =>
            /\ state' = [phase |-> "SETUP", players |-> <<>>, humanPlayerId |-> Null,
                         dayCount |-> 0, logs |-> <<>>, winner |-> Null,
                         witchPotions |-> [save |-> TRUE, poison |-> TRUE],
                         lastKilledId |-> Null, seerCheckResult |-> <<>>]
            /\ gameReducer(state, [type |-> "RESET_GAME"]) = state']_vars

\* a second game has just been started, clean, while a timer of the first game is
\* still pending
SecondGameStartedClean ==
    /\ gamesStarted = 2
    /\ state.phase = "NIGHT_START"
    /\ effectPending
    /\ state.logs = <<>>
    /\ \E i \in DOMAIN pending : pending[i].kind = "timer" /\ pending[i].name = "toWerewolf"

\* C24: in every step other than the start of a game and the reset, the roster keeps
\* its length, its order, its ids and every player's role, and no dead player
\* becomes alive.
RosterStable ==
    [][(gamesStarted' = gamesStarted /\ ~(state.phase # "SETUP" /\ state'.phase = "SETUP")) =>
          /\ DOMAIN state'.players = DOMAIN state.players
          /\ \A i \in DOMAIN state.players :
                /\ state'.players[i].id = state.players[i].id
                /\ state'.players[i].role = state.players[i].role
                /\ state'.players[i].isBot = state.players[i].isBot
                /\ state'.players[i].isAlive => state.players[i].isAlive]_vars

\* the second night has begun with a player dead and the night flags reset
SecondNightWithDead ==
    /\ state.phase = "NIGHT_START"
    /\ ~effectPending
    /\ state.dayCount = 2
    /\ \E i \in DOMAIN state.players : ~state.players[i].isAlive

\* the reducer actions other than START_GAME and RESET_GAME, with sample arguments
Dispatched ==
    {NextPhase(ph) : ph \in GamePhase}
    \cup {UpdatePlayer(PlayerId(i - 1), u) :
             i \in 1..SetupCount,
             u \in {NightFlagsReset, [isAlive |-> FALSE], [isDying |-> TRUE],
                    [voteTargetId |-> PlayerId(0)]}}
    \cup {SetLastKilled(id) : id \in Selections}
    \cup {SetWinner(w) : w \in {"WEREWOLF", "VILLAGER"}}
    \cup {SetWitchPotion(p, TRUE) : p \in {"save", "poison"}}
    \cup {SetSeerResult(<<[name |-> PlayerId(1), isWerewolf |-> TRUE]>>),
          [type |-> "INCREMENT_DAY"]}
    \cup {addLog(text) : text \in {"bot: line", "bot: reply", "human: chat", "host: NIGHT_START"}}

\* C25: in every reachable state a reducer action other than START_GAME and
\* RESET_GAME leaves the logs as they are, or, if it is ADD_LOG, puts exactly its
\* message at the end; and every step of the program other than a game start and a
\* reset keeps the logs it found as the beginning of the new logs, also when a late
\* narration or bot line arrives.
LogAppendOnly ==
    /\ [](\A a \in Dispatched :
             gameReducer(state, a).logs =
                IF a.type = "ADD_LOG" THEN Append(state.logs, a.message) ELSE state.logs)
    /\ [][(gamesStarted' = gamesStarted /\ ~(state.phase # "SETUP" /\ state'.phase = "SETUP")) =>
            /\ Len(state'.logs) >= Len(state.logs)
            /\ SubSeq(state'.logs, 1, Len(state.logs)) = state.logs]_vars

\* a bot's line has arrived after the vote was called
LateLineAtEndOfLog ==
    /\ state.phase = "DAY_VOTE"
    /\ Len(state.logs) >= 2
    /\ state.logs[Len(state.logs)] \in {"bot: line", "bot: reply"}
    /\ state.logs[Len(state.logs) - 1] = "alert: everyone votes"

TimersNamed(name) ==
    Len(SelectSeq(pending, LAMBDA w : w.kind = "timer" /\ w.name = name))

\* C26: no phase has two NEXT_PHASE dispatches on their way: of each timer that
\* dispatches NEXT_PHASE at most one is pending, whatever the human repeats.
OneTransitionPerPhase ==
    \A name \in {"toWerewolf", "botWerewolf", "botSeer", "botWitch", "toDiscuss",
                 "deadVote", "execute", "seerConfirm"} :
       TimersNamed(name) <= 1

-----------------------------------------------------------------------------
(* The setup screen: the form is filled in and the game is started *)

InitSetup ==
    /\ state = initialState
    /\ selectedTargetId = Null
    /\ pending = <<>>
    /\ effectPending = TRUE
    /\ gamesStarted = 0
    /\ limit = [draws |-> 1, games |-> 1, shuffles |-> MaxPlayers]
    /\ setup = [name |-> <<>>, count |-> SetupCount]

NextSetup == PhaseNoCase \/ setSetupName \/ setSetupCount \/ handleStartGame

SpecSetup == InitSetup /\ [][NextSetup]_vars

CountOf(role, roles) == Len(SelectSeq(roles, LAMBDA r : r = role))

RolesOf(players) == [i \in 1..Len(players) |-> players[i].role]

ValidSetup == trim(setup.name) # <<>> /\ setup.count \in MinPlayers..MaxPlayers

BotLines(s) == Lines(s, "bot: line") + Lines(s, "bot: reply")

\* C29: a bot's discussion line, from the auto-discussion timer or in reply to the
\* human's chat message, is added to the log only while the phase is DAY_DISCUSS.
BotSpeechOnlyInDiscussion ==
    [][BotLines(state') > BotLines(state) => state.phase = "DAY_DISCUSS"]_vars

NightTurns == {"NIGHT_WEREWOLF", "NIGHT_SEER", "NIGHT_WITCH"}

Successor(phase) ==
    CASE phase = "NIGHT_WEREWOLF" -> "NIGHT_SEER"
      [] phase = "NIGHT_SEER" -> "NIGHT_WITCH"
      [] phase = "NIGHT_WITCH" -> "NIGHT_END"

BotTimer(phase) ==
    CASE phase = "NIGHT_WEREWOLF" -> "botWerewolf"
      [] phase = "NIGHT_SEER" -> "botSeer"
      [] phase = "NIGHT_WITCH" -> "botWitch"

\* C30: in NIGHT_WEREWOLF, NIGHT_SEER and NIGHT_WITCH the evaluated phase has its
\* timer pending exactly when it is not the human's turn. On the human's turn the
\* phase is left only by the reset or, for its successor, by the human's intent:
\* a click in which nothing pending completes, or for the seer the 2000 ms timer
\* the confirm has set. Otherwise the phase is left for its successor by its own
\* timer, and it is always left.
SuspensionPoints ==
    /\ [](state.phase \in NightTurns /\ ~effectPending =>
             (TimersNamed(BotTimer(state.phase)) = 0 <=> isHumanTurn(state)))
    /\ [][state.phase \in NightTurns /\ state'.phase # state.phase =>
             \/ state' = initialState
             \/ /\ state'.phase = Successor(state.phase)
                /\ IF ~isHumanTurn(state)
                   THEN TimersNamed(BotTimer(state.phase))' = TimersNamed(BotTimer(state.phase)) - 1
                   ELSE IF state.phase = "NIGHT_SEER"
                        THEN SeerTimers > 0 /\ SeerTimers' = SeerTimers - 1
                        ELSE pending' \in Elapsed(pending)]_vars
    /\ \A phase \in NightTurns :
          (state.phase = phase /\ ~isHumanTurn(state)) ~> (state.phase # phase)

AliveIds(s) == {s.players[i].id : i \in Seats(s.players, LAMBDA p : p.isAlive)}

\* C31: once DAY_VOTE is evaluated every alive bot's voteTargetId names an alive
\* player other than the bot and every dead player's voteTargetId is null; in every
\* state nobody's voteTargetId is their own id.
BotVotesLegal ==
    /\ state.phase = "DAY_VOTE" /\ ~effectPending =>
          \A i \in DOMAIN state.players :
             LET p == state.players[i]
             IN /\ p.isAlive /\ p.isBot =>
                      p.voteTargetId \in AliveIds(state) \ {p.id}
                /\ ~p.isAlive => p.voteTargetId = Null
    /\ \A i \in DOMAIN state.players : state.players[i].voteTargetId # state.players[i].id

Dying(s) == Seats(s.players, LAMBDA p : p.isDying)

\* C32: at most one player carries the kill mark isDying, and lastKilledId is the
\* id of the player who carries it.
OneKillMark ==
    /\ Cardinality(Dying(state)) <= 1
    /\ \A i \in Dying(state) : state.lastKilledId = state.players[i].id

\* the players alive in s and dead in t, in seat order
DiedBetween(s, t) ==
    SelectSeq([i \in DOMAIN s.players |-> s.players[i].id],
              LAMBDA id : \E i \in DOMAIN s.players :
                             /\ s.players[i].id = id /\ s.players[i].isAlive
                             /\ i \in DOMAIN t.players /\ ~t.players[i].isAlive)

\* C33: the list DAY_ANNOUNCE computes on the state NIGHT_END leaves is the list of
\* the players who were alive before that NIGHT_END and are dead after it, and the
\* narration DAY_ANNOUNCE asks for carries that list.
AnnouncedAreTonightsDead ==
    /\ [][effectPending /\ state.phase = "NIGHT_END" /\ state'.phase = "DAY_ANNOUNCE" =>
             newlyDead(state') = DiedBetween(state, state')]_vars
    /\ [][effectPending /\ state.phase = "DAY_ANNOUNCE" /\ state'.phase = "DAY_ANNOUNCE" =>
             /\ Len(pending') = Len(pending) + 1
             /\ pending'[Len(pending')].kind = "narration"
             /\ pending'[Len(pending')].snap = newlyDead(state)]_vars

Poisoned(s) == Seats(s.players, LAMBDA p : p.isPoisoned)

\* C34: a step that spends the save potion is taken in NIGHT_WITCH and stays there,
\* with nobody poisoned yet that night and the poison untouched; a step that spends
\* the poison is taken in NIGHT_WITCH and leads to NIGHT_END, the save untouched; a
\* step that ends the human witch's NIGHT_WITCH for NIGHT_END without spending a
\* potion changes nothing else of the state.
WitchActionOrder ==
    [][state' # initialState =>
          /\ state'.witchPotions.save # state.witchPotions.save =>
                /\ state.phase = "NIGHT_WITCH" /\ state'.phase = "NIGHT_WITCH"
                /\ state'.witchPotions.poison = state.witchPotions.poison
                /\ Poisoned(state) = {}
          /\ state'.witchPotions.poison # state.witchPotions.poison =>
                /\ state.phase = "NIGHT_WITCH" /\ state'.phase = "NIGHT_END"
                /\ state'.witchPotions.save = state.witchPotions.save
          /\ ( /\ state.phase = "NIGHT_WITCH" /\ isHumanTurn(state)
               /\ state'.phase = "NIGHT_END"
               /\ state'.witchPotions = state.witchPotions ) =>
                state' = [state EXCEPT !.phase = "NIGHT_END"]]_vars

\* C35: when DAY_EXECUTE is entered and about to be resolved, the player its tally
\* names for execution, if it names one, is alive.
ExecutedWasAlive ==
    (effectPending /\ state.phase = "DAY_EXECUTE" /\ WinCheck(state) = Null) =>
        LET r == tally(state.players)
        IN (r.victimId # Null /\ ~r.tie) => r.victimId \in AliveIds(state)

-----------------------------------------------------------------------------
(* Games of a human witch: one rich game, or two games of one day each in which
   the human draws the witch's card *)

WitchSeat == 3

WitchLimits ==
    {[draws |-> MaxRand, games |-> 1, shuffles |-> MaxShuffle],
     [draws |-> 1, games |-> MaxGames, shuffles |-> MaxShuffle, seat |-> WitchSeat, days |-> 1]}

InitWitch ==
    /\ state = initialState
    /\ selectedTargetId = Null
    /\ pending = <<>>
    /\ effectPending = TRUE
    /\ gamesStarted = 0
    /\ limit \in WitchLimits
    /\ setup = filledForm

SpecWitch == InitWitch /\ [][Next]_vars

-----------------------------------------------------------------------------
(* Games after a reset: one rich game, or two games of one day each with two
   outcomes of every random draw and narrations that are answered at once *)

StaleLimits ==
    {[draws |-> MaxRand, games |-> 1, shuffles |-> MaxShuffle],
     [draws |-> MaxRand, games |-> MaxGames, shuffles |-> 1, days |-> 1, latency |-> 0]}

InitStale ==
    /\ state = initialState
    /\ selectedTargetId = Null
    /\ pending = <<>>
    /\ effectPending = TRUE
    /\ gamesStarted = 0
    /\ limit \in StaleLimits
    /\ setup = filledForm

SpecStale == InitStale /\ [][Next]_vars

-----------------------------------------------------------------------------
(* One game played to its end: no reset, narrations answered at once, every timer
   fires and the human gives every intent the game waits for *)

EndDays == SetupCount + 2

InitEnd ==
    /\ state = initialState
    /\ selectedTargetId = Null
    /\ pending = <<>>
    /\ effectPending = TRUE
    /\ gamesStarted = 0
    /\ limit = [draws |-> MaxRand, games |-> 1, shuffles |-> MaxShuffle,
                days |-> EndDays, latency |-> 0]
    /\ setup = filledForm

NextEnd ==
    \/ handleStartGame
    \/ runPhaseLogic
    \/ NarrationDone
    \/ TimerFires
    \/ SelectTarget
    \/ handleHumanAction
    \/ handleWitchSave
    \/ handleWitchPoison
    \/ skipPhase

\* the game waits for the human: the human's turn, before the seer's confirm, or the
\* discussion, which only the call for the vote ends
HumanAwaited ==
    /\ ~effectPending
    /\ isHumanTurn(state) \/ state.phase = "DAY_DISCUSS"
    /\ state.phase = "NIGHT_SEER" => SeerTimers = 0

HumanIntent == handleHumanAction \/ handleWitchPoison \/ skipPhase

SpecEnd ==
    /\ InitEnd /\ [][NextEnd]_vars
    /\ ([]<>(~effectPending) \/ []<><<runPhaseLogic>>_vars)
    /\ ([]<>(~HumanAwaited) \/ []<><<HumanIntent>>_vars)
    /\ WF_vars(TimerFires)
    /\ WF_vars(NarrationDone)

DeadCount(s) == Cardinality(Seats(s.players, LAMBDA p : ~p.isAlive))

\* C36: a started game reaches GAME_OVER; its day count never exceeds the number
\* of players plus one; and by day every night so far has cost a life, but for the
\* one night of the witch's save.
EveryGameEnds ==
    /\ (state.phase # "SETUP") ~> (state.phase = "GAME_OVER")
    /\ [](state.dayCount <= SetupCount + 1)
    /\ [](state.phase \in {"DAY_ANNOUNCE", "DAY_DISCUSS", "DAY_VOTE", "DAY_EXECUTE"} =>
             DeadCount(state) + (IF state.witchPotions.save THEN 0 ELSE 1) >= state.dayCount)

\* the werewolf has won a game that lasted to its fifth day or longer
LongGameWonByWerewolves ==
    /\ state.phase = "GAME_OVER"
    /\ state.winner = "WEREWOLF"
    /\ state.dayCount >= 5

-----------------------------------------------------------------------------
\* C37: the winner is set exactly when the phase is GAME_OVER; when the villagers
\* have won no werewolf is alive, and when the werewolves have won at least one
\* werewolf is alive and the alive werewolves are at least the alive others.
WinnerAndPhaseAgree ==
    /\ (state.winner # Null) <=> (state.phase = "GAME_OVER")
    /\ state.winner = "VILLAGER" => WolvesAlive(state.players) = 0
    /\ state.winner = "WEREWOLF" =>
          /\ WolvesAlive(state.players) >= 1
          /\ WolvesAlive(state.players) >= GoodAlive(state.players)

-----------------------------------------------------------------------------
Protected(s) == Seats(s.players, LAMBDA p : p.isProtected)

\* C38: within a game, a step taken while the human is not an alive witch leaves
\* both potions as they are, gives nobody isProtected or isPoisoned, and, when it
\* resolves NIGHT_END, eliminates at most one player; a step taken while the human
\* is not an alive seer leaves seerCheckResult as it is; no step eliminates more
\* than two players.
BotSeerAndWitchNeverAct ==
    [][(gamesStarted' = gamesStarted /\ ~(state.phase # "SETUP" /\ state'.phase = "SETUP")) =>
          /\ ~HumanHas(state, "WITCH") =>
                /\ state'.witchPotions = state.witchPotions
                /\ Protected(state') \subseteq Protected(state)
                /\ Poisoned(state') \subseteq Poisoned(state)
                /\ state.phase = "NIGHT_END" => Len(DiedBetween(state, state')) <= 1
          /\ ~HumanHas(state, "SEER") => state'.seerCheckResult = state.seerCheckResult
          /\ Len(DiedBetween(state, state')) <= 2]_vars

-----------------------------------------------------------------------------
\* C39: no player carries both the kill mark isDying and isProtected, and the
\* resolution of NIGHT_END eliminates exactly the alive players who carry isDying
\* or isPoisoned.
KillMarkExcludesProtection ==
    /\ [](Dying(state) \cap Protected(state) = {})
    /\ [][effectPending /\ state.phase = "NIGHT_END" /\ state'.phase = "DAY_ANNOUNCE" =>
             \A i \in DOMAIN state.players :
                state.players[i].isAlive =>
                   (~state'.players[i].isAlive <=>
                       (state.players[i].isDying \/ state.players[i].isPoisoned))]_vars

-----------------------------------------------------------------------------
\* C40: a seer check (the step that sets seerCheckResult and starts a seerConfirm
\* timer) is made only when no earlier check of the same NIGHT_SEER phase is still
\* waiting for its timer to move on to NIGHT_WITCH: one check per NIGHT_SEER.
OneSeerCheckPerNight ==
    [][SeerTimers' > SeerTimers => SeerTimers = 0]_vars

====
